---- MODULE Spec2Model ----
(***************************************************************************)
(* Continuous conversation engine of agent_vocal_IA                        *)
(* (src/src/conversation_manager.py, class ConversationManager).           *)
(*                                                                         *)
(* One ConversationManager object, the caller thread(s) that run           *)
(* start_conversation / stop_conversation, the PortAudio callback that     *)
(* feeds audio_queue, and the processing threads that run                  *)
(* _process_audio_loop (segmentation, then the blocking answer call and    *)
(* playback of _process_speech).                                           *)
(***************************************************************************)
EXTENDS Integers, Sequences, FiniteSets, TLC

\* ---------------------------------------------------------------- bounds
MaxFrames == 4        \* frames the input device delivers in one behaviour
MaxStarts == 2        \* streams and threads ever created (SpecRestart)
MaxSessions == 1      \* streams and threads ever created (Spec)
MaxCallers == 2       \* threads that call start/stop concurrently (SpecRace)
RaceFrames == 2       \* frames the input device delivers (SpecRace)
LiveFrames == 3       \* frames the input device delivers (SpecLive)
SplitFrames == 5      \* frames the input device delivers (SpecSplit)
MaxAdds == 4          \* interactions added between two clear_history calls

\* ------------------------------------------------------ program constants
ChunkMs == 500        \* chunk_duration * 1000
vad_threshold == 50   \* conversation.vad_threshold default 0.5, in percent
FallbackProb == 50    \* _detect_speech_in_chunk returns 0.5 on failure
FrameProbs == {10, 90} \* what the VAD model scores a frame: 0.1 or 0.9

DefaultHistoryLength == 5  \* orchestrator.conversation_history_length default
HistoryLengths == 0..2     \* configured lengths explored (SpecOrchestrator)
Questions == {1, 2}        \* interactions a caller adds (SpecOrchestrator)

MinSpeechChoices == {500, 1000}
MinSilenceChoices == {500, 1000}

Threads == 1..MaxStarts
Streams == 1..MaxStarts
FrameIds == 1..(IF SplitFrames > MaxFrames THEN SplitFrames ELSE MaxFrames)
Callers == 1..MaxCallers

VARIABLES
    \* configuration, fixed by __init__ and by the embedding application
    min_speech_duration_ms, min_silence_duration_ms,
    on_transcript, on_response, on_status,
    \* fields of the ConversationManager
    is_running, audio_queue, results_queue,
    latest_transcript, latest_response, latest_audio_path, status_message,
    audio_stream, processing_thread,
    \* the PortAudio streams and the processing threads ever created
    streams, pc, locals, cur,
    \* callers of start_conversation / stop_conversation
    cpc, ret,
    \* the environment: frames the device delivers, streams it lets open,
    \* threads of the application that call start/stop, whether the output
    \* device can fail, whether consumers poll an empty result queue,
    \* whether the VAD model can fail on a frame
    env,
    \* history
    nFrames, seen, handed, answers, resultsLog, raised, duringPlayback,
    playbackFailed, polled, last_poll, events, discarded,
    \* the VocalTutorOrchestrator: its configured history length, its
    \* conversation_history, the interactions added since the last
    \* clear_history (history) and what the last direct call of
    \* process_audio_file returned (history)
    conversation_history_length, conversation_history, added, last_result

cfgVars == <<min_speech_duration_ms, min_silence_duration_ms,
             on_transcript, on_response, on_status, env,
             conversation_history_length>>
snapVars == <<latest_transcript, latest_response, latest_audio_path, status_message>>
lifeVars == <<is_running, audio_stream, processing_thread, streams>>
callVars == <<cpc, ret>>
threadVars == <<pc, locals, cur>>
histVars == <<seen, handed, answers, resultsLog, raised, duringPlayback,
              playbackFailed, polled, last_poll, events, discarded>>
orchVars == <<conversation_history, added, last_result>>
vars == <<cfgVars, snapVars, lifeVars, callVars, threadVars, histVars,
          audio_queue, results_queue, nFrames, orchVars>>

\* Python's None as poll_results returns it, and the value of last_poll
\* before the first call
None == [type |-> "None", transcript |-> 0, response |-> 0, audio_path |-> 0]
NoCall == [type |-> "no call", transcript |-> 0, response |-> 0, audio_path |-> 0]

\* last_result before process_audio_file was called.  returned: the call
\* came back with a dictionary (it did not raise); success, error: the entry
\* 'success' and the presence of an entry 'error'; transcribed, generated,
\* synthesized: the stage produced its output
NoResult == [returned |-> FALSE, success |-> FALSE, error |-> FALSE,
             transcribed |-> FALSE, generated |-> FALSE, synthesized |-> FALSE]

\* the local variables of _process_audio_loop when a thread enters it
FreshLocals == [speech_chunks |-> <<>>, is_speaking |-> FALSE,
                silence_duration |-> 0, speech_duration |-> 0]

Constructed ==
    /\ is_running = FALSE
    /\ audio_queue = <<>>
    /\ results_queue = <<>>
    /\ latest_transcript = 0
    /\ latest_response = 0
    /\ latest_audio_path = 0
    /\ status_message = 0
    /\ audio_stream = 0
    /\ processing_thread = 0
    /\ streams = [s \in Streams |-> "none"]
    /\ pc = [t \in Threads |-> "unborn"]
    /\ locals = [t \in Threads |-> FreshLocals]
    /\ cur = [t \in Threads |-> 0]
    /\ cpc = [c \in Callers |-> "idle"]
    /\ ret = [c \in Callers |-> "none"]
    /\ nFrames = 0
    /\ seen = [f \in FrameIds |-> [by |-> 0, prob |-> 0]]
    /\ handed = <<>>
    /\ answers = <<>>
    /\ resultsLog = <<>>
    /\ raised = [t \in Threads |-> FALSE]
    /\ duringPlayback = {}
    /\ playbackFailed = {}
    /\ polled = <<>>
    /\ last_poll = NoCall
    /\ events = <<>>
    /\ discarded = {}
    /\ conversation_history = <<>>
    /\ added = <<>>
    /\ last_result = NoResult

Init ==
    /\ min_speech_duration_ms \in MinSpeechChoices
    /\ min_silence_duration_ms \in MinSilenceChoices
    /\ \E registered \in BOOLEAN :
        /\ on_transcript = registered
        /\ on_response = registered
        /\ on_status = registered
    /\ env = [frames |-> MaxFrames, starts |-> MaxSessions, callers |-> 1,
             play_fails |-> FALSE, poll_empty |-> FALSE,
             vad_fails |-> TRUE]
    /\ conversation_history_length = DefaultHistoryLength
    /\ Constructed

InitRestart ==
    /\ min_speech_duration_ms = 500
    /\ min_silence_duration_ms = 500
    /\ on_transcript = FALSE
    /\ on_response = FALSE
    /\ on_status = FALSE
    /\ env = [frames |-> MaxFrames, starts |-> MaxStarts, callers |-> 1,
             play_fails |-> FALSE, poll_empty |-> FALSE,
             vad_fails |-> TRUE]
    /\ conversation_history_length = DefaultHistoryLength
    /\ Constructed

\* two sessions as in InitRestart, and a device that delivers enough frames
\* for an utterance in the first session and another after the restart
InitSplit ==
    /\ min_speech_duration_ms = 500
    /\ min_silence_duration_ms = 500
    /\ on_transcript = FALSE
    /\ on_response = FALSE
    /\ on_status = FALSE
    /\ env = [frames |-> SplitFrames, starts |-> MaxStarts, callers |-> 1,
              play_fails |-> FALSE, poll_empty |-> FALSE,
              vad_fails |-> FALSE]
    /\ conversation_history_length = DefaultHistoryLength
    /\ Constructed

\* two application threads calling start_conversation / stop_conversation
InitRace ==
    /\ min_speech_duration_ms = 500
    /\ min_silence_duration_ms = 500
    /\ on_transcript = FALSE
    /\ on_response = FALSE
    /\ on_status = FALSE
    /\ env = [frames |-> RaceFrames, starts |-> MaxStarts, callers |-> MaxCallers,
             play_fails |-> FALSE, poll_empty |-> FALSE,
             vad_fails |-> TRUE]
    /\ conversation_history_length = DefaultHistoryLength
    /\ Constructed

\* one session in which the playback of a response can fail
InitPlayback ==
    /\ min_speech_duration_ms = 500
    /\ min_silence_duration_ms = 500
    /\ \E registered \in BOOLEAN :
        /\ on_transcript = registered
        /\ on_response = registered
        /\ on_status = registered
    /\ env = [frames |-> MaxFrames, starts |-> MaxSessions, callers |-> 1,
              play_fails |-> TRUE, poll_empty |-> FALSE,
              vad_fails |-> TRUE]
    /\ conversation_history_length = DefaultHistoryLength
    /\ Constructed

\* one session whose consumers call poll_results whatever the queue holds
InitPoll ==
    /\ min_speech_duration_ms = 500
    /\ min_silence_duration_ms = 500
    /\ on_transcript = FALSE
    /\ on_response = FALSE
    /\ on_status = FALSE
    /\ env = [frames |-> MaxFrames, starts |-> MaxSessions, callers |-> 1,
              play_fails |-> FALSE, poll_empty |-> TRUE,
              vad_fails |-> TRUE]
    /\ conversation_history_length = DefaultHistoryLength
    /\ Constructed

\* one session, no callback registered, and a reader thread that calls
\* get_latest_results at any moment
InitSnapshot ==
    /\ min_speech_duration_ms = 500
    /\ min_silence_duration_ms = 500
    /\ on_transcript = FALSE
    /\ on_response = FALSE
    /\ on_status = FALSE
    /\ env = [frames |-> MaxFrames, starts |-> MaxSessions, callers |-> 1,
              play_fails |-> FALSE, poll_empty |-> FALSE,
              vad_fails |-> TRUE]
    /\ conversation_history_length = DefaultHistoryLength
    /\ Constructed

\* ------------------------------------------------------------ segmentation

\* _detect_speech_in_chunk: the model's probability, 0.5 when the model is
\* missing or raises
DetectSpeech(p, fails) == IF fails THEN FallbackProb ELSE p

\* the test of line 163
IsSpeech(p) == p > vad_threshold

MutSpeechEndedSilenceOnly(silence_duration, speech_duration) ==
    silence_duration >= min_silence_duration_ms

MutSpeechEndedEither(silence_duration, speech_duration) ==
    \/ silence_duration >= min_silence_duration_ms
    \/ speech_duration >= min_speech_duration_ms

\* the test of lines 184-185
SpeechEnded(silence_duration, speech_duration) ==
    /\ silence_duration >= min_silence_duration_ms
    /\ speech_duration >= min_speech_duration_ms

\* the silence counted so far survives a frame of speech
MutSpeechFrameKeepsSilence(l, f) ==
    [l EXCEPT !.speech_chunks = Append(@, f),
              !.speech_duration = @ + ChunkMs]

\* lines 172-174: a frame above the threshold is appended, counted as speech,
\* and ends the current silence
SpeechFrame(l, f) ==
    [l EXCEPT !.speech_chunks = Append(@, f),
              !.speech_duration = @ + ChunkMs,
              !.silence_duration = 0]

\* the frame is kept in the buffer while the loop is idle
MutIdleSilenceBuffered(l, f) == [l EXCEPT !.speech_chunks = Append(@, f)]

\* lines 175-178: a frame at or below the threshold while is_speaking is
\* False; the else branch does nothing for it
IdleSilence(l, f) == l

\* One pass through the state machine of lines 163-198 up to, and not
\* including, the call of _process_speech.  l: the loop's locals, f: the
\* frame, p: its probability, r: on_status is registered and raises when it
\* is called.  The event says how the pass ends: "raised" (on_status raised,
\* caught at line 200), "ended" (_process_speech is called), "started", "none".
Observe(l, f, p, r) ==
    IF IsSpeech(p)
    THEN IF ~l.is_speaking /\ r
         THEN [loc |-> l, event |-> "raised"]
         ELSE LET l1 == IF l.is_speaking THEN l
                        ELSE [l EXCEPT !.is_speaking = TRUE,
                                       !.speech_duration = 0,
                                       !.silence_duration = 0]
              IN [loc |-> SpeechFrame(l1, f),
                  event |-> IF l.is_speaking THEN "none" ELSE "started"]
    ELSE IF l.is_speaking
         THEN LET l1 == [l EXCEPT !.silence_duration = @ + ChunkMs,
                                  !.speech_chunks = Append(@, f)]
              IN IF SpeechEnded(l1.silence_duration, l1.speech_duration)
                 THEN [loc |-> l1, event |-> IF r THEN "raised" ELSE "ended"]
                 ELSE [loc |-> l1, event |-> "none"]
         ELSE [loc |-> IdleSilence(l, f), event |-> "none"]

\* ------------------------------------------------ VocalTutorOrchestrator

\* Python's h[-n:] for n >= 0: the last n elements, and the whole list for
\* n = 0 (-0 is 0, so the slice is h[0:])
SliceFromMinus(h, n) ==
    IF n = 0 \/ n >= Len(h) THEN h ELSE SubSeq(h, Len(h) - n + 1, Len(h))

\* the last n elements of h
LastN(h, n) ==
    IF n >= Len(h) THEN h ELSE SubSeq(h, Len(h) - n + 1, Len(h))


\* add_to_history, lines 319-329 of orchestrator.py: append, then keep the
\* recent history
AddToHistory(h, x) ==
    LET h1 == Append(h, x)
    IN IF Len(h1) > conversation_history_length
       THEN SliceFromMinus(h1, conversation_history_length)
       ELSE h1

\* process_audio_file, lines 114-212 of orchestrator.py.  What each stage
\* does is an input:
\*   asr: "text", "empty" (no speech, or a blank transcript), "raise" (the
\*        module cannot be loaded, the file cannot be read, Whisper fails)
\*   rag: "ok", "notfound" (FileNotFoundError, handled at line 170), "raise"
\*   llm: "text", "empty" (the model returns a blank text), "raise"
\*   tts: "file", "raise"; synthesize_to_file returns None without raising
\*        for a blank text (tts.py lines 92-94)
\* result: the dictionary returned; add: add_to_history was called.
ProcessAudioFile(asr, rag, llm, tts) ==
    LET failed(transcribed, generated) ==
            [result |-> [returned |-> TRUE, success |-> FALSE, error |-> TRUE,
                         transcribed |-> transcribed, generated |-> generated,
                         synthesized |-> FALSE],
             add |-> FALSE]
    IN IF asr # "text" THEN failed(FALSE, FALSE)
       ELSE IF rag = "raise" THEN failed(TRUE, FALSE)
       ELSE IF llm = "raise" THEN failed(TRUE, FALSE)
       ELSE IF llm = "text" /\ tts = "raise" THEN failed(TRUE, TRUE)
       ELSE [result |-> [returned |-> TRUE, success |-> TRUE, error |-> FALSE,
                         transcribed |-> TRUE, generated |-> TRUE,
                         synthesized |-> llm = "text"],
             add |-> TRUE]

\* --------------------------------------------------------- _process_speech

\* The except clause of lines 273-276: on_status is called with the error;
\* when it raises too the exception leaves _process_speech.
HandlerEscapes(rH) == on_status /\ rH

\* Lines 264-265 reached (after the queue put and the playback): on_status
\* may raise inside the try block, which runs the except clause.
TailEscapes(rS, rH) == on_status /\ rS /\ HandlerEscapes(rH)

\* How the code after the answer call (lines 232-276) ends.
\*   outcome: "ok_audio", "ok_nofile" (success, no playable file),
\*            "fail" (success False), "raise"
\*   rT, rR, rS, rH: on_transcript, on_response, on_status in the try block and
\*   on_status in the except clause raise when called
\* put: an entry goes on results_queue; play: _play_audio_file is called;
\* cb_raised: a callback raised; escapes: an exception leaves _process_speech.
AfterAnswer(outcome, rT, rR, rS, rH) ==
    IF outcome \in {"ok_audio", "ok_nofile"}
    THEN IF (on_transcript /\ rT) \/ (on_response /\ rR)
         THEN [put |-> FALSE, play |-> FALSE, cb_raised |-> TRUE,
               escapes |-> HandlerEscapes(rH)]
         ELSE IF outcome = "ok_audio"
              THEN [put |-> TRUE, play |-> TRUE, cb_raised |-> FALSE, escapes |-> FALSE]
              ELSE [put |-> TRUE, play |-> FALSE, cb_raised |-> on_status /\ rS,
                    escapes |-> TailEscapes(rS, rH)]
    ELSE IF outcome = "fail"
         THEN [put |-> FALSE, play |-> FALSE, cb_raised |-> on_status /\ rS,
               escapes |-> TailEscapes(rS, rH)]
         ELSE [put |-> FALSE, play |-> FALSE, cb_raised |-> HandlerEscapes(rH),
               escapes |-> HandlerEscapes(rH)]

\* The locals of the loop after _process_speech: lines 195-198 reset them,
\* unless the exception left _process_speech and line 200 caught it.
LocalsAfterSpeech(l, escapes) == IF escapes THEN l ELSE FreshLocals

MutAfterLoopExceptionLeaves == "done"

\* Where the loop goes after an exception caught at line 200.
AfterLoopException == "check"

\* the entry put on results_queue at lines 253-258
ResultEntry(u, audio) ==
    [type |-> "result", transcript |-> u, response |-> u,
     audio_path |-> IF audio THEN u ELSE 0]

\* lines 163-168: the pass logs "Speech started" and calls on_status with
\* the speech-detected status
SpeechStarted(l, p) == IsSpeech(p) /\ ~l.is_speaking

\* --------------------------------------------- _process_audio_loop, a thread

\* line 147: while self.is_running
LoopCheck(t) ==
    /\ pc[t] = "check"
    /\ pc' = [pc EXCEPT ![t] = IF is_running THEN "get" ELSE "done"]
    /\ UNCHANGED <<cfgVars, orchVars, snapVars, lifeVars, callVars, locals, cur, histVars,
                   audio_queue, results_queue, nFrames>>

\* lines 151-153: the queue stayed empty for 0.1 s
LoopTimeout(t) ==
    /\ pc[t] = "get"
    /\ audio_queue = <<>>
    /\ pc' = [pc EXCEPT ![t] = "check"]
    /\ UNCHANGED <<cfgVars, orchVars, snapVars, lifeVars, callVars, locals, cur, histVars,
                   audio_queue, results_queue, nFrames>>

\* lines 151-198: one frame taken from the queue, classified and run through
\* the state machine; at the end of an utterance _process_speech is entered
\* and runs up to the answer call (lines 212-225).
LoopFrame(t) ==
    /\ pc[t] = "get"
    /\ audio_queue # <<>>
    /\ \E fails \in {FALSE, env.vad_fails}, rS, tmpFails, rH \in BOOLEAN :
        LET f == Head(audio_queue)
            p == DetectSpeech(f.prob, fails)
            o == Observe(locals[t], f.id, p, on_status /\ rS)
        IN /\ audio_queue' = Tail(audio_queue)
           /\ seen' = [seen EXCEPT ![f.id] = [by |-> t, prob |-> p]]
           /\ events' = IF SpeechStarted(locals[t], p) THEN Append(events, "started")
                        ELSE IF o.event = "ended" THEN Append(events, "ended")
                        ELSE events
           /\ discarded' = IF ~IsSpeech(p) /\ ~locals[t].is_speaking
                           THEN discarded \cup {f.id} ELSE discarded
           /\ IF o.event = "ended"
              THEN /\ handed' = Append(handed, [by |-> t, frames |-> o.loc.speech_chunks])
                   /\ IF tmpFails
                      THEN \* the temporary file cannot be written
                           /\ locals' = [locals EXCEPT
                                  ![t] = LocalsAfterSpeech(o.loc, HandlerEscapes(rH))]
                           /\ pc' = [pc EXCEPT ![t] =
                                  IF HandlerEscapes(rH) THEN AfterLoopException
                                  ELSE "check"]
                           /\ raised' = [raised EXCEPT ![t] = @ \/ HandlerEscapes(rH)]
                           /\ cur' = cur
                      ELSE /\ locals' = [locals EXCEPT ![t] = o.loc]
                           /\ pc' = [pc EXCEPT ![t] = "answer"]
                           /\ cur' = [cur EXCEPT ![t] = Len(handed) + 1]
                           /\ raised' = raised
              ELSE /\ locals' = [locals EXCEPT ![t] = o.loc]
                   /\ pc' = [pc EXCEPT ![t] =
                          IF o.event = "raised" THEN AfterLoopException ELSE "check"]
                   /\ raised' = [raised EXCEPT ![t] = @ \/ (o.event = "raised")]
                   /\ UNCHANGED <<handed, cur>>
    /\ UNCHANGED <<cfgVars, orchVars, snapVars, lifeVars, callVars, answers, resultsLog,
                   duringPlayback, playbackFailed, polled, last_poll,
                   results_queue, nFrames>>

\* lines 225-276: orchestrator.process_audio_file returns or raises; the
\* callbacks run, the snapshot is stored, the result is queued.
AnswerReturn(t) ==
    /\ pc[t] = "answer"
    /\ \E outcome \in {"ok_audio", "ok_nofile", "fail", "raise"},
          rT, rR, rS, rH \in BOOLEAN :
        LET a == AfterAnswer(outcome, rT, rR, rS, rH)
            u == cur[t]
        IN /\ answers' = Append(answers,
                  [utt |-> u, ok |-> outcome \in {"ok_audio", "ok_nofile"},
                   audio |-> outcome = "ok_audio"])
           /\ IF a.put
              THEN /\ latest_transcript' = u
                   /\ latest_response' = u
                   /\ latest_audio_path' = IF outcome = "ok_audio" THEN u ELSE 0
                   /\ results_queue' = Append(results_queue,
                                              ResultEntry(u, outcome = "ok_audio"))
                   /\ resultsLog' = Append(resultsLog,
                                           ResultEntry(u, outcome = "ok_audio"))
              ELSE UNCHANGED <<latest_transcript, latest_response,
                               latest_audio_path, results_queue, resultsLog>>
           /\ IF a.play
              THEN /\ pc' = [pc EXCEPT ![t] = "play"]
                   /\ UNCHANGED <<locals, cur, raised>>
              ELSE /\ pc' = [pc EXCEPT ![t] =
                          IF a.escapes THEN AfterLoopException ELSE "check"]
                   /\ locals' = [locals EXCEPT
                          ![t] = LocalsAfterSpeech(locals[t], a.escapes)]
                   /\ cur' = [cur EXCEPT ![t] = 0]
                   /\ raised' = [raised EXCEPT ![t] = @ \/ a.cb_raised]
           /\ IF outcome \in {"ok_audio", "ok_nofile"}
              THEN \* process_audio_file added the interaction (line 206)
                   /\ conversation_history' = AddToHistory(conversation_history, u)
                   /\ added' = Append(added, u)
              ELSE UNCHANGED <<conversation_history, added>>
    /\ UNCHANGED <<cfgVars, last_result, status_message, lifeVars, callVars, seen,
                   handed, duringPlayback, playbackFailed, polled, last_poll, events, discarded,
                   audio_queue, nFrames>>

\* a failed playback raises out of _play_audio_file and out of
\* _process_speech
MutAfterPlaybackFailureEscapes(fails, rS, rH) ==
    [escapes |-> fails \/ TailEscapes(rS, rH), cb_raised |-> on_status /\ rS]

\* How _process_speech ends after _play_audio_file (lines 262-276).
\* fails: sf.read, sd.play or sd.wait raises; the except clause of lines
\* 297-298 logs it and _play_audio_file returns as after a playback that
\* succeeded.  Then on_status is called at line 265.
AfterPlayback(fails, rS, rH) ==
    [escapes |-> TailEscapes(rS, rH), cb_raised |-> on_status /\ rS]

\* lines 262-265 and 278-298: the playback ends or fails, then on_status is
\* called.
PlaybackDone(t) ==
    /\ pc[t] = "play"
    /\ \E fails \in {FALSE, env.play_fails}, rS, rH \in BOOLEAN :
        LET a == AfterPlayback(fails, rS, rH)
        IN /\ pc' = [pc EXCEPT ![t] =
                  IF a.escapes THEN AfterLoopException ELSE "check"]
           /\ locals' = [locals EXCEPT
                  ![t] = LocalsAfterSpeech(locals[t], a.escapes)]
           /\ raised' = [raised EXCEPT ![t] = @ \/ a.cb_raised]
           /\ playbackFailed' = IF fails THEN playbackFailed \cup {cur[t]}
                                ELSE playbackFailed
    /\ cur' = [cur EXCEPT ![t] = 0]
    /\ UNCHANGED <<cfgVars, orchVars, snapVars, lifeVars, callVars, seen, handed, answers,
                   resultsLog, duringPlayback, polled, last_poll, events, discarded,
                   audio_queue, results_queue, nFrames>>

\* ------------------------------------------------------- the audio callback

\* a queue that holds one frame is full
MutPutBlocksWhenFull(q) == Len(q) >= 1

\* audio_queue.put, line 136, has to wait: never, queue.Queue() of line 54
\* has no maximum size
PutBlocks(q) == FALSE

\* _audio_callback, lines 130-136: PortAudio calls it while a stream is active
AudioCallback(s) ==
    /\ streams[s] = "active"
    /\ nFrames < env.frames
    /\ ~PutBlocks(audio_queue)
    /\ \E p \in FrameProbs :
        audio_queue' = Append(audio_queue, [id |-> nFrames + 1, prob |-> p])
    /\ nFrames' = nFrames + 1
    /\ duringPlayback' = IF \E t \in Threads : pc[t] = "play"
                         THEN duringPlayback \cup {nFrames + 1}
                         ELSE duringPlayback
    /\ UNCHANGED <<cfgVars, orchVars, snapVars, lifeVars, callVars, threadVars,
                   seen, handed, answers, resultsLog, raised, playbackFailed,
                   polled, last_poll, events, discarded, results_queue>>

\* the entry is returned and left on the queue
MutGetNowaitPeeks(q) ==
    IF q = <<>> THEN [value |-> None, queue |-> q]
    ELSE [value |-> Head(q), queue |-> q]

\* results_queue.get_nowait() with the handler of queue.Empty, lines 389-392:
\* what poll_results returns and what it leaves on the queue
GetNowait(q) ==
    IF q = <<>> THEN [value |-> None, queue |-> q]
    ELSE [value |-> Head(q), queue |-> Tail(q)]

\* poll_results, lines 382-392, called by any consumer thread; get_nowait
\* takes the queue's mutex, so a call is one step
poll_results ==
    /\ results_queue # <<>> \/ env.poll_empty
    /\ LET r == GetNowait(results_queue)
       IN /\ results_queue' = r.queue
          /\ last_poll' = r.value
          /\ polled' = IF r.value = None THEN polled ELSE Append(polled, r.value)
    /\ UNCHANGED <<cfgVars, orchVars, snapVars, lifeVars, callVars, threadVars,
                   seen, handed, answers, resultsLog, raised, duringPlayback,
                   playbackFailed, events, discarded, audio_queue, nFrames>>

\* get_latest_results, lines 367-380: the snapshot a polling reader gets
get_latest_results ==
    [transcript |-> latest_transcript,
     response |-> latest_response,
     audio_path |-> latest_audio_path,
     status |-> status_message,
     is_active |-> is_running]

MutIsActiveNever == FALSE

\* is_active, lines 363-365
is_active == is_running

\* ------------------------------------------------------ start_conversation

\* the stream object self.audio_stream already names, taken again
MutNextStreamReused == IF audio_stream = 0 THEN 1 ELSE audio_stream

\* sd.InputStream(...) at line 312 and threading.Thread(...) at line 327
\* construct a new object at every call
NextStream == Cardinality({s \in Streams : streams[s] # "none"}) + 1
NextThread == Cardinality({t \in Threads : pc[t] # "unborn"}) + 1

MutAlreadyRunningNever == FALSE

\* the test of line 302
AlreadyRunning == is_running

\* a caller enters start_conversation
CallStart(c) ==
    /\ c <= env.callers
    /\ cpc[c] = "idle"
    /\ is_running \/ (NextStream <= env.starts /\ NextThread <= env.starts)
    /\ cpc' = [cpc EXCEPT ![c] = "s_check"]
    /\ UNCHANGED <<cfgVars, orchVars, snapVars, lifeVars, ret, threadVars, histVars,
                   audio_queue, results_queue, nFrames>>

\* lines 302-306: already running, warn and return
StartCheck(c) ==
    /\ cpc[c] = "s_check"
    /\ IF AlreadyRunning
       THEN /\ cpc' = [cpc EXCEPT ![c] = "idle"]
            /\ ret' = [ret EXCEPT ![c] = "start_noop"]
       ELSE /\ cpc' = [cpc EXCEPT ![c] = "s_set"]
            /\ ret' = ret
    /\ UNCHANGED <<cfgVars, orchVars, snapVars, lifeVars, threadVars, histVars,
                   audio_queue, results_queue, nFrames>>

\* line 308
StartSet(c) ==
    /\ cpc[c] = "s_set"
    /\ is_running' = TRUE
    /\ cpc' = [cpc EXCEPT ![c] = "s_open"]
    /\ UNCHANGED <<cfgVars, orchVars, snapVars, audio_stream, processing_thread, streams, ret,
                   threadVars, histVars, audio_queue, results_queue, nFrames>>

\* What lines 311-324 leave behind.  dev: "ok", "open_fails" (sd.InputStream
\* raises, no stream exists), "start_fails" (the stream is opened and bound to
\* self.audio_stream, then start() raises).  The except clause clears
\* is_running and re-raises; it does not close the stream.
OpenStream(dev) ==
    [stream |-> IF dev = "ok" THEN "active"
                ELSE IF dev = "start_fails" THEN "open" ELSE "none",
     running |-> dev = "ok"]

StartOpen(c) ==
    /\ cpc[c] = "s_open"
    /\ NextStream <= env.starts
    /\ \E dev \in {"ok", "open_fails", "start_fails"} :
        LET o == OpenStream(dev)
        IN /\ streams' = [streams EXCEPT ![NextStream] = o.stream]
           /\ audio_stream' = IF o.stream = "none" THEN audio_stream ELSE NextStream
           /\ is_running' = IF o.running THEN is_running ELSE FALSE
           /\ cpc' = [cpc EXCEPT ![c] = IF o.running THEN "s_spawn" ELSE "idle"]
           /\ ret' = [ret EXCEPT ![c] = IF o.running THEN @ ELSE "start_raised"]
    /\ UNCHANGED <<cfgVars, orchVars, snapVars, processing_thread, threadVars, histVars,
                   audio_queue, results_queue, nFrames>>

\* lines 326-336: the processing thread is created and started, on_status is
\* called (an exception of the callback reaches the caller)
StartSpawn(c) ==
    /\ cpc[c] = "s_spawn"
    /\ NextThread <= env.starts
    /\ processing_thread' = NextThread
    /\ pc' = [pc EXCEPT ![NextThread] = "check"]
    /\ locals' = [locals EXCEPT ![NextThread] = FreshLocals]
    /\ cpc' = [cpc EXCEPT ![c] = "idle"]
    /\ \E r \in BOOLEAN :
        ret' = [ret EXCEPT ![c] = IF on_status /\ r THEN "start_cb_raised"
                                  ELSE "started"]
    /\ UNCHANGED <<cfgVars, orchVars, snapVars, is_running, audio_stream, streams, cur,
                   histVars, audio_queue, results_queue, nFrames>>

\* ------------------------------------------------------- stop_conversation

MutNotRunningNever == FALSE

\* the test of line 340
NotRunning == ~is_running

CallStop(c) ==
    /\ c <= env.callers
    /\ cpc[c] = "idle"
    /\ cpc' = [cpc EXCEPT ![c] = "t_check"]
    /\ UNCHANGED <<cfgVars, orchVars, snapVars, lifeVars, ret, threadVars, histVars,
                   audio_queue, results_queue, nFrames>>

\* lines 340-344
StopCheck(c) ==
    /\ cpc[c] = "t_check"
    /\ IF NotRunning
       THEN /\ cpc' = [cpc EXCEPT ![c] = "idle"]
            /\ ret' = [ret EXCEPT ![c] = "stop_noop"]
       ELSE /\ cpc' = [cpc EXCEPT ![c] = "t_set"]
            /\ ret' = ret
    /\ UNCHANGED <<cfgVars, orchVars, snapVars, lifeVars, threadVars, histVars,
                   audio_queue, results_queue, nFrames>>

\* line 346
StopSet(c) ==
    /\ cpc[c] = "t_set"
    /\ is_running' = FALSE
    /\ cpc' = [cpc EXCEPT ![c] = "t_stream"]
    /\ UNCHANGED <<cfgVars, orchVars, snapVars, audio_stream, processing_thread, streams, ret,
                   threadVars, histVars, audio_queue, results_queue, nFrames>>

\* lines 348-352: stop and close the stream self.audio_stream names; PortAudio
\* raises on a stream that is already closed
StopStream(c) ==
    /\ cpc[c] = "t_stream"
    /\ IF audio_stream # 0 /\ streams[audio_stream] = "closed"
       THEN /\ cpc' = [cpc EXCEPT ![c] = "idle"]
            /\ ret' = [ret EXCEPT ![c] = "stop_raised"]
            /\ streams' = streams
       ELSE /\ cpc' = [cpc EXCEPT ![c] = "t_join"]
            /\ ret' = ret
            /\ streams' = IF audio_stream = 0 THEN streams
                          ELSE [streams EXCEPT ![audio_stream] = "closed"]
    /\ UNCHANGED <<cfgVars, orchVars, snapVars, is_running, audio_stream, processing_thread,
                   threadVars, histVars, audio_queue, results_queue, nFrames>>

MutJoinWithoutTimeout(t) == FALSE

\* join(timeout=2.0) gives up on a thread that is inside the answer call or
\* the playback; a thread polling the queue every 0.1 s is waited for
JoinTimesOut(t) == pc[t] \in {"answer", "play"}

\* lines 354-361: join the thread self.processing_thread names, for 2 s at
\* most, then call on_status
StopJoin(c) ==
    /\ cpc[c] = "t_join"
    /\ IF processing_thread = 0
       THEN TRUE
       ELSE pc[processing_thread] = "done" \/ JoinTimesOut(processing_thread)
    /\ cpc' = [cpc EXCEPT ![c] = "idle"]
    /\ \E r \in BOOLEAN :
        ret' = [ret EXCEPT ![c] = IF on_status /\ r THEN "stop_cb_raised"
                                  ELSE "stopped"]
    /\ UNCHANGED <<cfgVars, orchVars, snapVars, lifeVars, threadVars, histVars,
                   audio_queue, results_queue, nFrames>>

\* ------------------------------------------------------------ specification

Next ==
    \/ \E c \in Callers : CallStart(c)
    \/ \E c \in Callers : StartCheck(c)
    \/ \E c \in Callers : StartSet(c)
    \/ \E c \in Callers : StartOpen(c)
    \/ \E c \in Callers : StartSpawn(c)
    \/ \E c \in Callers : CallStop(c)
    \/ \E c \in Callers : StopCheck(c)
    \/ \E c \in Callers : StopSet(c)
    \/ \E c \in Callers : StopStream(c)
    \/ \E c \in Callers : StopJoin(c)
    \/ \E s \in Streams : AudioCallback(s)
    \/ \E t \in Threads : LoopCheck(t)
    \/ \E t \in Threads : LoopTimeout(t)
    \/ \E t \in Threads : LoopFrame(t)
    \/ \E t \in Threads : AnswerReturn(t)
    \/ \E t \in Threads : PlaybackDone(t)
    \/ poll_results

Spec == Init /\ [][Next]_vars
SpecRestart == InitRestart /\ [][Next]_vars
SpecSplit == InitSplit /\ [][Next]_vars
SpecRace == InitRace /\ [][Next]_vars
SpecPlayback == InitPlayback /\ [][Next]_vars
SpecPoll == InitPoll /\ [][Next]_vars

\* ------------------------- _process_speech, one statement at a time
\*
\* AnswerReturn runs lines 225-276 in one step.  That hides nothing from the
\* threads that only use the queues, but a thread that calls
\* get_latest_results reads three fields that lines 248-250 assign one after
\* the other, with no lock; the actions below run those assignments as the
\* interpreter does, one per step.

\* lines 225-248: the answer call reports success, the callbacks return,
\* latest_transcript is assigned
StoreTranscript(t) ==
    /\ pc[t] = "answer"
    /\ \E outcome \in {"ok_audio", "ok_nofile"}, rT, rR \in BOOLEAN :
        LET u == cur[t]
        IN /\ AfterAnswer(outcome, rT, rR, FALSE, FALSE).put
           /\ answers' = Append(answers,
                  [utt |-> u, ok |-> TRUE, audio |-> outcome = "ok_audio"])
           /\ latest_transcript' = u
           /\ conversation_history' = AddToHistory(conversation_history, u)
           /\ added' = Append(added, u)
    /\ pc' = [pc EXCEPT ![t] = "store_response"]
    /\ UNCHANGED <<cfgVars, last_result, latest_response, latest_audio_path,
                   status_message, lifeVars, callVars, locals, cur, seen, handed,
                   resultsLog, raised, duringPlayback, playbackFailed, polled,
                   last_poll, events, discarded, audio_queue, results_queue, nFrames>>

\* lines 225-276 when nothing is stored: the answer call failed or raised,
\* or a callback raised before line 248
AnswerNotStored(t) ==
    /\ AnswerReturn(t)
    /\ resultsLog' = resultsLog

\* line 249
StoreResponse(t) ==
    /\ pc[t] = "store_response"
    /\ latest_response' = cur[t]
    /\ pc' = [pc EXCEPT ![t] = "store_audio"]
    /\ UNCHANGED <<cfgVars, orchVars, latest_transcript, latest_audio_path,
                   status_message, lifeVars, callVars, locals, cur, histVars,
                   audio_queue, results_queue, nFrames>>

\* lines 250-271: latest_audio_path is assigned, the result is queued, the
\* playback starts or, with no file to play, on_status is called
StoreAudioPath(t) ==
    /\ pc[t] = "store_audio"
    /\ \E rS, rH \in BOOLEAN :
        LET u == cur[t]
            audio == \E i \in 1..Len(answers) : answers[i].utt = u /\ answers[i].audio
            a == AfterAnswer(IF audio THEN "ok_audio" ELSE "ok_nofile",
                             FALSE, FALSE, rS, rH)
        IN /\ latest_audio_path' = IF audio THEN u ELSE 0
           /\ results_queue' = Append(results_queue, ResultEntry(u, audio))
           /\ resultsLog' = Append(resultsLog, ResultEntry(u, audio))
           /\ IF a.play
              THEN /\ pc' = [pc EXCEPT ![t] = "play"]
                   /\ UNCHANGED <<locals, cur, raised>>
              ELSE /\ pc' = [pc EXCEPT ![t] =
                          IF a.escapes THEN AfterLoopException ELSE "check"]
                   /\ locals' = [locals EXCEPT
                          ![t] = LocalsAfterSpeech(locals[t], a.escapes)]
                   /\ cur' = [cur EXCEPT ![t] = 0]
                   /\ raised' = [raised EXCEPT ![t] = @ \/ a.cb_raised]
    /\ UNCHANGED <<cfgVars, orchVars, latest_transcript, latest_response,
                   status_message, lifeVars, callVars, seen, handed, answers,
                   duringPlayback, playbackFailed, polled, last_poll, events,
                   discarded, audio_queue, nFrames>>

NextSnapshot ==
    \/ \E c \in Callers : CallStart(c)
    \/ \E c \in Callers : StartCheck(c)
    \/ \E c \in Callers : StartSet(c)
    \/ \E c \in Callers : StartOpen(c)
    \/ \E c \in Callers : StartSpawn(c)
    \/ \E c \in Callers : CallStop(c)
    \/ \E c \in Callers : StopCheck(c)
    \/ \E c \in Callers : StopSet(c)
    \/ \E c \in Callers : StopStream(c)
    \/ \E c \in Callers : StopJoin(c)
    \/ \E s \in Streams : AudioCallback(s)
    \/ \E t \in Threads : LoopCheck(t)
    \/ \E t \in Threads : LoopTimeout(t)
    \/ \E t \in Threads : LoopFrame(t)
    \/ \E t \in Threads : StoreTranscript(t)
    \/ \E t \in Threads : AnswerNotStored(t)
    \/ \E t \in Threads : StoreResponse(t)
    \/ \E t \in Threads : StoreAudioPath(t)
    \/ \E t \in Threads : PlaybackDone(t)
    \/ poll_results

SpecSnapshot == InitSnapshot /\ [][NextSnapshot]_vars

\* ---------------------------------- the orchestrator called on its own

managerVars == <<cfgVars, snapVars, lifeVars, callVars, threadVars, histVars,
                 audio_queue, results_queue, nFrames>>

\* an orchestrator of any configured history length, and a manager that is
\* never started
InitOrchestrator ==
    /\ min_speech_duration_ms = 500
    /\ min_silence_duration_ms = 500
    /\ on_transcript = FALSE
    /\ on_response = FALSE
    /\ on_status = FALSE
    /\ env = [frames |-> 0, starts |-> 0, callers |-> 0,
              play_fails |-> FALSE, poll_empty |-> FALSE,
              vad_fails |-> TRUE]
    /\ conversation_history_length \in HistoryLengths
    /\ Constructed

\* add_to_history, lines 305-329
add_to_history ==
    /\ Len(added) < MaxAdds
    /\ \E q \in Questions :
        /\ conversation_history' = AddToHistory(conversation_history, q)
        /\ added' = Append(added, q)
    /\ UNCHANGED <<managerVars, last_result>>

\* clear_history, lines 335-340
clear_history ==
    /\ conversation_history' = <<>>
    /\ added' = <<>>
    /\ UNCHANGED <<managerVars, last_result>>

\* process_audio_file, lines 114-212, called directly
process_audio_file ==
    /\ Len(added) < MaxAdds
    /\ \E q \in Questions :
       \E asr \in {"text", "empty", "raise"}, rag \in {"ok", "notfound", "raise"},
          llm \in {"text", "empty", "raise"}, tts \in {"file", "raise"} :
        LET r == ProcessAudioFile(asr, rag, llm, tts)
        IN /\ last_result' = r.result
           /\ IF r.add
              THEN /\ conversation_history' = AddToHistory(conversation_history, q)
                   /\ added' = Append(added, q)
              ELSE UNCHANGED <<conversation_history, added>>
    /\ UNCHANGED managerVars

NextOrchestrator ==
    \/ add_to_history
    \/ clear_history
    \/ process_audio_file

SpecOrchestrator == InitOrchestrator /\ [][NextOrchestrator]_vars

\* What the scheduling guarantees: a caller inside start_conversation or
\* stop_conversation goes on to its next statement, and a processing thread
\* that is not inside the answer call or the playback goes on with its loop
\* (the queue get times out after 0.1 s).  Nothing makes the device deliver a
\* frame, and nothing makes an answer call or a playback return.
Fairness ==
    /\ \A c \in Callers :
          WF_vars(StartCheck(c) \/ StartSet(c) \/ StartOpen(c) \/ StartSpawn(c)
                  \/ StopCheck(c) \/ StopSet(c) \/ StopStream(c) \/ StopJoin(c))
    /\ \A t \in Threads :
          WF_vars(LoopCheck(t) \/ LoopTimeout(t) \/ LoopFrame(t))

\* one session with the default 500 ms speech minimum, callbacks registered
\* or not
InitLive ==
    /\ min_speech_duration_ms = 500
    /\ min_silence_duration_ms = 500
    /\ \E registered \in BOOLEAN :
        /\ on_transcript = registered
        /\ on_response = registered
        /\ on_status = registered
    /\ env = [frames |-> LiveFrames, starts |-> MaxSessions, callers |-> 1,
             play_fails |-> FALSE, poll_empty |-> FALSE,
             vad_fails |-> TRUE]
    /\ conversation_history_length = DefaultHistoryLength
    /\ Constructed

SpecLive == InitLive /\ [][Next]_vars /\ Fairness

\* ------------------------------------------------- reading the history

IdSeq == [i \in FrameIds |-> i]

\* the frames thread t has taken from the queue, in the order it took them
RunOf(t) == SelectSeq(IdSeq, LAMBDA i : seen[i].by = t)

\* the utterances thread t has handed to _process_speech, oldest first
HandedBy(t) == SelectSeq(handed, LAMBDA h : h.by = t)

\* frame i was scored above the threshold / at or below it
Above(i) == seen[i].prob > vad_threshold
Below(i) == seen[i].prob <= vad_threshold

\* thread t has seen j frames at or below the threshold, then k above it,
\* then m at or below it, and nothing else
Shape(t, j, k, m) ==
    LET run == RunOf(t)
    IN /\ Len(run) = j + k + m
       /\ \A i \in 1..Len(run) :
            IF i > j /\ i <= j + k THEN Above(run[i]) ELSE Below(run[i])

\* the least number of frames that lasts min_silence_duration_ms
MinSilenceFrames ==
    CHOOSE n \in 1..(min_silence_duration_ms \div ChunkMs + 1) :
        /\ n * ChunkMs >= min_silence_duration_ms
        /\ (n - 1) * ChunkMs < min_silence_duration_ms

\* the number of frames at the start of run that are at or below the threshold
LeadingSilence(run) ==
    Cardinality({i \in 1..Len(run) : \A h \in 1..i : Below(run[h])})

\* the number of frames after the first j that are above the threshold in a row
SpeechBlock(run, j) ==
    Cardinality({i \in (j + 1)..Len(run) : \A h \in (j + 1)..i : Above(run[h])})

\* C1: a thread that has seen, from Idle, k frames above the threshold lasting
\* at least min_speech_duration_ms and then m frames at or below it lasting at
\* least min_silence_duration_ms has handed exactly one utterance to
\* _process_speech: the k speech frames followed by the first
\* MinSilenceFrames silence frames, so never more than k + m frames.
C1_OneUtterance ==
    \A t \in Threads :
        LET run == RunOf(t)
            j == LeadingSilence(run)
            k == SpeechBlock(run, j)
            m == Len(run) - j - k
            mine == HandedBy(t)
        IN ( /\ Shape(t, j, k, m)
             /\ k * ChunkMs >= min_speech_duration_ms
             /\ m * ChunkMs >= min_silence_duration_ms )
           => /\ Len(mine) = 1
              /\ mine[1].frames = SubSeq(run, j + 1, j + k + MinSilenceFrames)
              /\ Len(mine[1].frames) <= k + m

\* The statement of C1 for the threads in which no callback has raised: it
\* holds there, so the loss of C1 comes from a raising on_status alone.
OneUtteranceWhenCallbacksReturn ==
    \A t \in Threads :
        LET run == RunOf(t)
            j == LeadingSilence(run)
            k == SpeechBlock(run, j)
            m == Len(run) - j - k
            mine == HandedBy(t)
        IN ( /\ ~raised[t]
             /\ Shape(t, j, k, m)
             /\ k * ChunkMs >= min_speech_duration_ms
             /\ m * ChunkMs >= min_silence_duration_ms )
           => /\ Len(mine) = 1
              /\ mine[1].frames = SubSeq(run, j + 1, j + k + MinSilenceFrames)
              /\ Len(mine[1].frames) <= k + m

\* the scenario of the specification: both minimums 1000 ms, frames
\* 0.9, 0.9, 0.1, 0.1, one utterance of 4 frames
ScenarioFourFrames ==
    \E t \in Threads :
        /\ min_speech_duration_ms = 1000
        /\ min_silence_duration_ms = 1000
        /\ ~raised[t]
        /\ Shape(t, 0, 2, 2)
        /\ \A i \in 1..2 : seen[RunOf(t)[i]].prob = 90
        /\ Len(HandedBy(t)) = 1
        /\ Len(HandedBy(t)[1].frames) = 4

\* C2: a thread that has seen, from Idle, only k frames above the threshold
\* lasting less than min_speech_duration_ms, and then any number of frames at
\* or below it, has handed no utterance to _process_speech.
C2_TooShortNeverHanded ==
    \A t \in Threads :
        LET run == RunOf(t)
            j == LeadingSilence(run)
            k == SpeechBlock(run, j)
            m == Len(run) - j - k
        IN ( /\ Shape(t, j, k, m)
             /\ k >= 1
             /\ k * ChunkMs < min_speech_duration_ms )
           => HandedBy(t) = <<>>

\* 0.9, 0.1, 0.1 with both minimums 1000 ms: nothing handed
C2_Witness ==
    \E t \in Threads :
        /\ min_speech_duration_ms = 1000
        /\ min_silence_duration_ms = 1000
        /\ Shape(t, 0, 1, 2)
        /\ HandedBy(t) = <<>>
        /\ locals[t].is_speaking
        /\ locals[t].silence_duration >= min_silence_duration_ms

\* the speech an utterance holds: ChunkMs for each of its frames that was
\* scored above the threshold
SpeechMsOf(frames) ==
    ChunkMs * Cardinality({i \in 1..Len(frames) : Above(frames[i])})

\* C3: every utterance handed to _process_speech holds at least
\* min_speech_duration_ms of speech, and every answer and every queued
\* result belongs to such an utterance.
C3_OnlyLongEnoughHanded ==
    /\ \A i \in 1..Len(handed) :
          SpeechMsOf(handed[i].frames) >= min_speech_duration_ms
    /\ \A i \in 1..Len(answers) : answers[i].utt \in 1..Len(handed)
    /\ \A i \in 1..Len(resultsLog) : resultsLog[i].transcript \in 1..Len(handed)

\* an utterance holding exactly the minimum of 1000 ms of speech was handed
\* over and answered
C3_Witness ==
    /\ min_speech_duration_ms = 1000
    /\ Len(handed) = 1
    /\ Len(handed[1].frames) = 3
    /\ SpeechMsOf(handed[1].frames) = 1000
    /\ resultsLog # <<>>

\* C4: every answer call that failed (raised, or returned success False) has
\* put one failure entry on the result queue.
C4_FailureQueued ==
    Cardinality({n \in 1..Len(resultsLog) : resultsLog[n].type # "result"})
        = Cardinality({i \in 1..Len(answers) : ~answers[i].ok})

\* thread t takes a frame at or below the threshold that completes the
\* silence of an utterance holding enough speech
CompletesUtterance(t) ==
    \E f \in FrameIds :
        /\ seen[f].by = 0
        /\ seen'[f].by = t
        /\ seen'[f].prob <= vad_threshold
        /\ locals[t].is_speaking
        /\ locals[t].silence_duration + ChunkMs >= min_silence_duration_ms
        /\ locals[t].speech_duration >= min_speech_duration_ms

\* C5: no failure ends the loop or changes is_running.  A thread leaves its
\* loop only at the test of line 147 with is_running False; is_running
\* changes only in a step of start_conversation or stop_conversation; and an
\* utterance whose end is reached is handed to _process_speech whatever
\* failed before, or, when on_status raised, is kept in the buffer.
C5_FailureKeepsLoopRunning ==
    [][ /\ (is_running' # is_running => cpc' # cpc)
        /\ \A t \in Threads :
            /\ (pc'[t] = "done" /\ pc[t] # "done")
                  => (pc[t] = "check" /\ ~is_running)
            /\ CompletesUtterance(t)
                  => \/ /\ Len(handed') = Len(handed) + 1
                        /\ handed'[Len(handed')].by = t
                     \/ /\ on_status
                        /\ raised'[t]
                        /\ Len(locals'[t].speech_chunks)
                              = Len(locals[t].speech_chunks) + 1
      ]_vars

\* a thread whose first answer call failed has handed over a second
\* utterance, and the engine is still running
C5_Witness ==
    \E t \in Threads :
        /\ is_running
        /\ pc[t] \notin {"unborn", "done"}
        /\ Len(answers) >= 1
        /\ ~answers[1].ok
        /\ Len(handed) = 2
        /\ handed[1].by = t
        /\ handed[2].by = t

\* C6: every answer call that succeeded has put exactly one result entry
\* with the utterance's transcript, response and audio path on the queue.
C6_OneResultPerSuccess ==
    \A i \in 1..Len(answers) :
        answers[i].ok =>
            Cardinality({n \in 1..Len(resultsLog) :
                /\ resultsLog[n].type = "result"
                /\ resultsLog[n].transcript = answers[i].utt
                /\ resultsLog[n].response = answers[i].utt}) = 1

\* C7: results are queued in the order their utterances were finalized, and
\* the queue holds the results not polled yet in that order.
C7_ResultsInFinalizationOrder ==
    /\ \A a, b \in 1..Len(resultsLog) :
          a < b => resultsLog[a].transcript < resultsLog[b].transcript
    /\ results_queue = SubSeq(resultsLog,
                              Len(resultsLog) - Len(results_queue) + 1,
                              Len(resultsLog))

\* C8: at most one thread is inside an answer call or a playback.
C8_OneAnswerInFlight ==
    Cardinality({t \in Threads : pc[t] \in {"answer", "play"}}) <= 1

C10_FailedStartLeavesNothing ==
    \A c \in Callers :
        (cpc[c] = "idle" /\ ret[c] = "start_raised")
           => /\ ~is_running
              /\ \A s \in Streams : streams[s] \notin {"open", "active"}
              /\ Cardinality({t \in Threads : pc[t] # "unborn"})
                    = Cardinality({s \in Streams : streams[s] \in {"active", "closed"}})

\* ------------------------------------------------------------------- C11
\* C11: stop_conversation() on an engine that is not running (never started,
\* or already stopped) returns without an error and changes nothing: the
\* step that leaves the test of line 340 returns to the caller with the no-op
\* outcome and leaves the lifecycle fields, the streams, the threads, the
\* snapshot and both queues as they were, so a repeated stop leaves the state
\* of the first one.
C11_StopWhenStoppedIsNoOp ==
    [][ \A c \in Callers :
          (cpc[c] = "t_check" /\ ~is_running /\ cpc'[c] # "t_check")
             => /\ cpc'[c] = "idle"
                /\ ret'[c] = "stop_noop"
                /\ UNCHANGED <<lifeVars, snapVars, threadVars,
                               audio_queue, results_queue>>
      ]_vars

\* a stop after a completed stop: the stream of the session is closed, the
\* thread has left its loop and the second stop returned as a no-op
C11_Witness ==
    /\ ret[1] = "stop_noop"
    /\ audio_stream # 0
    /\ streams[audio_stream] = "closed"
    /\ processing_thread # 0
    /\ pc[processing_thread] = "done"

\* a stop on an engine that was never started
C11_WitnessNeverStarted ==
    /\ ret[1] = "stop_noop"
    /\ audio_stream = 0
    /\ processing_thread = 0

\* ------------------------------------------------------------------- C12
\* the last call of the caller was a stop_conversation that went past the
\* test of line 340 and has returned (normally, or with on_status raising at
\* line 359 after the stream and the thread were dealt with)
StopReturned(c) ==
    /\ cpc[c] = "idle"
    /\ ret[c] \in {"stopped", "stop_cb_raised"}

ThreadInLoop(t) == pc[t] \in {"check", "get", "answer", "play"}
StreamOpen(s) == streams[s] \in {"open", "active"}

\* C12: after start_conversation() followed by stop_conversation(), once the
\* stop has returned no processing thread is still inside its loop and no
\* input stream is open, whatever frames were delivered in between.
C12_StopLeavesNoThreadNoStream ==
    \A c \in Callers :
        StopReturned(c) => /\ \A t \in Threads : ~ThreadInLoop(t)
                           /\ \A s \in Streams : ~StreamOpen(s)

\* the stream half of C12 alone
StopLeavesNoStream ==
    \A c \in Callers : StopReturned(c) => \A s \in Streams : ~StreamOpen(s)

\* ------------------------------------------------------------------- C13
\* C13: stop_conversation() on a running engine always comes back to its
\* caller and leaves the engine stopped (is_active() False), also when the
\* processing thread never leaves the answer call or the playback: a call
\* that has passed the test of line 340 eventually ends, after the join, with
\* is_running False.
C13_StopAlwaysReturns ==
    \A c \in Callers :
        (cpc[c] = "t_set") ~> (StopReturned(c) /\ ~is_running)

\* stop has returned and the thread it joined is still inside the answer call
\* or the playback
C13_Witness ==
    /\ StopReturned(1)
    /\ ~is_running
    /\ processing_thread # 0
    /\ pc[processing_thread] \in {"answer", "play"}

\* a stop_conversation that raised at line 350 on an already closed stream
StopRaisedOnStream == \E c \in Callers : ret[c] = "stop_raised"

\* ------------------------------------------------------------------- C14
\* C14: every successful start_conversation() after a stop_conversation()
\* opens an input stream that did not exist before and spawns a processing
\* thread that did not exist before; a stream that a stop closed stays closed
\* (it is never started again) and frames are queued only while some stream
\* is active.
C14_RestartCreatesNewStreamAndThread ==
    [][ /\ \A s \in Streams : streams[s] = "closed" => streams'[s] = "closed"
        /\ \A c \in Callers :
              (cpc[c] = "s_open" /\ cpc'[c] = "s_spawn")
                 => /\ audio_stream' # audio_stream
                    /\ streams[audio_stream'] = "none"
                    /\ streams'[audio_stream'] = "active"
        /\ \A c \in Callers :
              (cpc[c] = "s_spawn" /\ cpc'[c] = "idle")
                 => /\ processing_thread' # processing_thread
                    /\ pc[processing_thread'] = "unborn"
                    /\ pc'[processing_thread'] = "check"
        /\ nFrames' # nFrames => \E s \in Streams : streams[s] = "active"
      ]_vars

\* the second session: the first stream is closed, a second stream is active
\* and its frames are being classified by a second thread
C14_Witness ==
    /\ streams = <<"closed", "active">>
    /\ audio_stream = 2
    /\ processing_thread = 2
    /\ ret[1] = "started"
    /\ \E f \in FrameIds : seen[f].by = 2

\* ------------------------------------------------------------------- C15
\* C15: for any interleaving of start_conversation() and stop_conversation()
\* calls made by different threads, at most one input stream is open and at
\* most one processing thread is alive at any time.
C15_AtMostOneStreamOneThread ==
    /\ Cardinality({s \in Streams : StreamOpen(s)}) <= 1
    /\ Cardinality({t \in Threads : ThreadInLoop(t)}) <= 1

\* C15, second half: every open stream is the one self.audio_stream names,
\* so that a later stop_conversation can close it.
OpenStreamIsReachable ==
    \A s \in Streams : StreamOpen(s) => audio_stream = s

\* ------------------------------------------------------------------- C16
\* C16: a frame captured while a synthesized response is being played back
\* is never classified by the VAD and never appended to an utterance.
C16_PlaybackFramesNeverClassified ==
    \A f \in duringPlayback :
        /\ seen[f].by = 0
        /\ \A i \in 1..Len(handed) :
              \A j \in 1..Len(handed[i].frames) : handed[i].frames[j] # f

\* ------------------------------------------------------------------- C17
\* C17: when the playback of a response fails the failure is swallowed: the
\* step in which the playback fails leaves the result on results_queue and
\* in the snapshot, the thread stays in its loop, and the failure does not
\* leave _process_speech (the locals are reset as after a playback that
\* succeeded; only an on_status callback that raises can prevent the reset).
C17_PlaybackFailureSwallowed ==
    [][ \A t \in Threads :
          (pc[t] = "play" /\ pc'[t] # "play" /\ cur[t] \in playbackFailed')
             => /\ UNCHANGED <<snapVars, results_queue, resultsLog, is_running>>
                /\ pc'[t] = "check"
                /\ ~on_status => locals'[t] = FreshLocals
      ]_vars

\* the playback of utterance u failed, its result is the latest snapshot and
\* was queued, and the same thread has handed over a later utterance
C17_Witness ==
    \E u \in playbackFailed :
        /\ \E i \in 1..Len(resultsLog) : resultsLog[i].transcript = u
        /\ \E v \in 1..Len(handed) :
              /\ v > u
              /\ handed[v].by = handed[u].by
              /\ \E i \in 1..Len(resultsLog) : resultsLog[i].transcript = v

\* ------------------------------------------------------------------- C18
\* thread t has just classified frame f and the classifier failed on it (the
\* model scores a frame 0.1 or 0.9, FallbackProb is what a failure returns)
ClassifierFailedOn(t, f) ==
    /\ seen[f].by = 0
    /\ seen'[f].by = t
    /\ seen'[f].prob = FallbackProb

\* C18: when the classifier fails on a frame the loop does not crash and the
\* frame is treated as speech: its probability is above the threshold, it
\* is appended to the utterance (which it starts when the loop was idle) and
\* it resets the silence counted so far.  Stated for an engine whose
\* on_status callback is not registered, so that no callback interferes.
C18_ClassifierFailureCountsAsSpeech ==
    [][ \A t \in Threads : \A f \in FrameIds :
          (ClassifierFailedOn(t, f) /\ ~on_status)
             => /\ pc'[t] # "done"
                /\ IsSpeech(seen'[f].prob)
                /\ locals'[t].is_speaking
                /\ locals'[t].speech_chunks = Append(locals[t].speech_chunks, f)
                /\ locals'[t].speech_duration = locals[t].speech_duration + ChunkMs
                /\ locals'[t].silence_duration = 0
      ]_vars

\* the half of C18 that holds: a classifier failure never ends the loop
ClassifierFailureKeepsLoop ==
    [][ \A t \in Threads : \A f \in FrameIds :
          ClassifierFailedOn(t, f) => pc'[t] \in {"check", "answer"}
      ]_vars

SuccessfulAnswers == SelectSeq(answers, LAMBDA a : a.ok)

\* C20: the transcript, response and audio path of the snapshot are those of
\* the most recent utterance that was processed successfully, and are empty
\* when there is none.
C20_SnapshotIsLatestSuccess ==
    IF SuccessfulAnswers = <<>>
    THEN /\ latest_transcript = 0
         /\ latest_response = 0
         /\ latest_audio_path = 0
    ELSE LET a == SuccessfulAnswers[Len(SuccessfulAnswers)]
         IN /\ latest_transcript = a.utt
            /\ latest_response = a.utt
            /\ latest_audio_path = IF a.audio THEN a.utt ELSE 0

\* C20 as far as it holds: the three fields are those of the latest entry
\* put on results_queue (empty when none was put)
SnapshotIsLatestQueued ==
    IF resultsLog = <<>>
    THEN /\ latest_transcript = 0
         /\ latest_response = 0
         /\ latest_audio_path = 0
    ELSE LET e == resultsLog[Len(resultsLog)]
         IN /\ latest_transcript = e.transcript
            /\ latest_response = e.response
            /\ latest_audio_path = e.audio_path

\* C20, second half: only the step of a successful answer changes the three
\* fields; a failed utterance, start_conversation, stop_conversation and
\* poll_results leave them unchanged
SnapshotChangesOnlyOnSuccess ==
    [][ \/ UNCHANGED <<latest_transcript, latest_response, latest_audio_path>>
        \/ /\ Len(answers') = Len(answers) + 1
           /\ answers'[Len(answers')].ok
      ]_vars

\* ------------------------------------------------------------------- C21
\* on_status is registered and some thread has called it and seen it return:
\* a thread is_speaking only after line 168 returned, and an utterance is
\* handed over only after line 189 returned
StatusWasEmitted ==
    /\ on_status
    /\ \/ \E t \in Threads : locals[t].is_speaking
       \/ handed # <<>>

\* C21: the status field of get_latest_results() is the latest status the
\* engine emitted; every status the engine emits is a non-empty message, so
\* once one was emitted the field is not the empty string of __init__.
C21_StatusFieldIsLatestStatus ==
    StatusWasEmitted => get_latest_results.status # 0

\* ------------------------------------------------------------------- C22
\* C22: is_active() is False on a freshly constructed manager, True once a
\* start_conversation() has returned normally and as long as the caller has
\* not called stop_conversation(), False once a stop_conversation() has
\* returned; the is_active entry of get_latest_results() agrees with it.
\* Stated for calls made one after the other by one caller.
C22_IsActiveFollowsLifecycle ==
    /\ get_latest_results.is_active = is_active
    /\ \A c \in Callers :
          cpc[c] = "idle" /\ env.callers = 1 /\ c = 1
             => /\ ret[c] = "none" => ~is_active
                /\ ret[c] \in {"started", "start_noop"} => is_active
                /\ ret[c] \in {"stopped", "stop_noop"} => ~is_active

\* a session that received frames was stopped and the stop has returned
C22_Witness ==
    /\ cpc[1] = "idle"
    /\ ret[1] = "stopped"
    /\ nFrames > 0
    /\ ~is_active

\* a start has returned normally and frames are being classified
C22_WitnessRunning ==
    /\ cpc[1] = "idle"
    /\ ret[1] = "started"
    /\ \E f \in FrameIds : seen[f].by # 0
    /\ is_active

\* ------------------------------------------------------------------- C23
\* C23: after any sequence of add_to_history and clear_history calls the
\* conversation history is exactly the last min(n, conversation_history_length)
\* interactions added since the most recent clear_history, in the order they
\* were added, n being the number added since that clear.
C23_HistoryIsLastAdded ==
    conversation_history = LastN(added, conversation_history_length)

\* C23 for a configured length of at least one interaction
HistoryIsLastAddedWhenPositive ==
    conversation_history_length >= 1 => C23_HistoryIsLastAdded

\* ------------------------------------------------------------------- C24
\* C24: process_audio_file always returns a result; the result has an
\* 'error' entry exactly when its success is False, and its success is True
\* only when transcription, generation and synthesis all completed.
C24_SuccessMeansAllStagesCompleted ==
    last_result.returned =>
        /\ last_result.error <=> ~last_result.success
        /\ last_result.success =>
               /\ last_result.transcribed
               /\ last_result.generated
               /\ last_result.synthesized

\* C24 without the synthesis: what the code does guarantee
SuccessMeansTranscribedAndGenerated ==
    last_result.returned =>
        /\ last_result.error <=> ~last_result.success
        /\ last_result.success => last_result.transcribed /\ last_result.generated

\* ------------------------------------------------------------------- C25
\* C25: once a run of speech shorter than min_speech_duration_ms has been
\* followed by silence of at least min_silence_duration_ms, the loop is idle
\* again with an empty buffer and zeroed durations: no loop is left speaking
\* with a qualifying silence and a too short speech.
C25_ShortRunIsDiscarded ==
    \A t \in Threads :
        ~ /\ locals[t].is_speaking
          /\ locals[t].silence_duration >= min_silence_duration_ms
          /\ locals[t].speech_duration < min_speech_duration_ms

\* ------------------------------------------------------------------- C26
\* thread t is in its segmentation loop, taking frames from audio_queue
\* (lines 147-153), with an utterance open in its own speech_chunks
Accumulating(t) == pc[t] \in {"check", "get"} /\ locals[t].is_speaking

\* C26: at any time at most one utterance is being accumulated by the
\* manager: never two segmentation loops that take frames from audio_queue,
\* each with its own open buffer, whatever start_conversation and
\* stop_conversation calls were made.
C26_AtMostOneOpenUtterance ==
    Cardinality({t \in Threads : Accumulating(t)}) <= 1

\* ------------------------------------------------------------------- C27
\* e is "started", "ended", "started", ... : the two events alternate,
\* beginning with a speech start
Alternate(e) ==
    \A i \in 1..Len(e) : e[i] = IF i % 2 = 1 THEN "started" ELSE "ended"

\* C27: the speech-started and speech-ended events of the manager strictly
\* alternate, starting with a speech-started: no two starts without an
\* utterance handed to processing in between, and one start before every
\* utterance handed over.
C27_StartAndEndAlternate == Alternate(events)

\* C27 for one session whose callbacks are not registered
StartAndEndAlternateWithoutCallbacks == ~on_status => Alternate(events)

\* ------------------------------------------------------------------- C28
\* fr is a run of consecutive frames of the captured stream, in capture order
ContiguousRun(fr) == \A i \in 1..(Len(fr) - 1) : fr[i + 1] = fr[i] + 1

\* C28: the frames of every utterance handed to processing are a contiguous
\* run of the captured stream in capture order, from an above-threshold
\* frame (the one that started the utterance) to a below-threshold frame
\* (the one that triggered the hand-over): none missing, duplicated or
\* reordered in between.
C28_UtteranceIsContiguousRun ==
    \A i \in 1..Len(handed) :
        LET fr == handed[i].frames
        IN /\ fr # <<>>
           /\ ContiguousRun(fr)
           /\ IsSpeech(seen[fr[1]].prob)
           /\ ~IsSpeech(seen[fr[Len(fr)]].prob)

\* ------------------------------------------------------------------- C29
\* the frames of an utterance
FramesOf(h) == {h.frames[k] : k \in 1..Len(h.frames)}

\* C29: the loop is reset once an utterance has been handed to processing,
\* so no frame of an utterance handed over appears in a later one: every
\* captured frame belongs to at most one utterance.
C29_FrameInAtMostOneUtterance ==
    \A i, j \in 1..Len(handed) :
        i < j => FramesOf(handed[i]) \cap FramesOf(handed[j]) = {}

\* C29 when no status callback is registered
FrameInAtMostOneUtteranceWithoutCallbacks ==
    ~on_status => C29_FrameInAtMostOneUtterance

\* the reset itself: a thread that comes back from _process_speech to the test
\* of its loop has fresh locals, when no status callback is registered
ResetAfterHandOverWithoutCallbacks ==
    [][ \A t \in Threads :
          (~on_status /\ pc[t] \in {"answer", "play"} /\ pc'[t] = "check")
              => locals'[t] = FreshLocals ]_vars

\* ------------------------------------------------------------------- C30
\* the frames a loop holds in its buffer
Buffered(t) == {locals[t].speech_chunks[k] : k \in 1..Len(locals[t].speech_chunks)}

\* C30: a frame at or below the threshold observed while the loop is idle
\* is discarded, it is in no buffer and in no utterance handed to processing
\* afterwards; and whenever a loop is not speaking its buffer is empty.
C30_IdleSilenceIsDiscarded ==
    /\ \A t \in Threads : ~locals[t].is_speaking => locals[t].speech_chunks = <<>>
    /\ \A f \in discarded :
        /\ \A t \in Threads : f \notin Buffered(t)
        /\ \A i \in 1..Len(handed) : f \notin FramesOf(handed[i])

\* a frame was discarded while the loop was idle, and the frames that came
\* right after it made an utterance that was handed to processing
C30_Witness ==
    \E f \in discarded : \E i \in 1..Len(handed) :
        /\ handed[i].frames[1] = f + 1
        /\ \A t \in Threads : ~locals[t].is_speaking

\* ------------------------------------------------------------------- C31
\* the number of frames at the end of fr that are at or below the threshold
TrailingSilence(fr) ==
    Cardinality({i \in 1..Len(fr) : \A h \in i..Len(fr) : Below(fr[h])})

\* C31: silence_duration counts only the frames at or below the threshold
\* that end the buffer, a frame above the threshold puts it back to 0, and
\* speech_duration is the sum of all the speech of the buffer, pauses
\* skipped; so every utterance handed to processing ends with at least
\* MinSilenceFrames frames at or below the threshold.
C31_SilenceCountsCurrentRunOnly ==
    /\ \A t \in Threads :
          locals[t].is_speaking =>
              /\ locals[t].silence_duration
                     = ChunkMs * TrailingSilence(locals[t].speech_chunks)
              /\ locals[t].speech_duration = SpeechMsOf(locals[t].speech_chunks)
    /\ \A i \in 1..Len(handed) :
          TrailingSilence(handed[i].frames) >= MinSilenceFrames

\* two bursts of speech separated by a pause shorter than 1000 ms are in one
\* buffer: the pause is forgotten, the speech of both is counted
C31_Witness ==
    \E t \in Threads :
        /\ min_silence_duration_ms = 1000
        /\ locals[t].is_speaking
        /\ Len(locals[t].speech_chunks) = 3
        /\ Above(locals[t].speech_chunks[1])
        /\ Below(locals[t].speech_chunks[2])
        /\ Above(locals[t].speech_chunks[3])
        /\ locals[t].silence_duration = 0
        /\ locals[t].speech_duration = 1000

\* an utterance made of two bursts and the pause between them was handed
\* to processing
C31_WitnessHanded ==
    \E i \in 1..Len(handed) :
        /\ Len(handed[i].frames) = 4
        /\ Above(handed[i].frames[1])
        /\ Below(handed[i].frames[2])
        /\ Above(handed[i].frames[3])
        /\ Below(handed[i].frames[4])

\* ------------------------------------------------------------------- C32
\* the frames taken from audio_queue so far
Consumed == {f \in FrameIds : seen[f].by # 0}

\* C32: the callback never waits and never drops a frame: whenever the
\* device has a frame for an active stream the callback can put it on
\* audio_queue, whatever the processing threads are doing; and the frames
\* are consumed in capture order: those taken so far are the first ones
\* captured, and audio_queue holds all the others, oldest first.
C32_CallbackNeverBlocksNorDrops ==
    /\ \A s \in Streams :
          (streams[s] = "active" /\ nFrames < env.frames) => ENABLED AudioCallback(s)
    /\ Consumed = 1..Cardinality(Consumed)
    /\ Len(audio_queue) = nFrames - Cardinality(Consumed)
    /\ \A i \in 1..Len(audio_queue) : audio_queue[i].id = Cardinality(Consumed) + i

\* a frame delivered while a response was being played back was queued and
\* taken by the loop afterwards
C32_Witness ==
    \E f \in duringPlayback : seen[f].by # 0

\* ------------------------------------------------------------------- C33
\* C33: what get_latest_results returns is never torn: its transcript,
\* response and audio path are all still empty, or are all those of one
\* utterance that was answered successfully.
C33_SnapshotNeverTorn ==
    LET r == get_latest_results
    IN \/ r.transcript = 0 /\ r.response = 0 /\ r.audio_path = 0
       \/ \E i \in 1..Len(answers) :
             /\ answers[i].ok
             /\ r.transcript = answers[i].utt
             /\ r.response = answers[i].utt
             /\ r.audio_path = IF answers[i].audio THEN answers[i].utt ELSE 0

\* ------------------------------------------------------------------- C34
\* thread t was started by an earlier session: stop_conversation has been
\* called since (a later start_conversation passed the test of line 302 and
\* spawned the current thread), and t has not left its loop
Abandoned(t) == pc[t] \notin {"unborn", "done"} /\ processing_thread # t

\* C34: the thread that was running when stop_conversation was called leaves
\* its loop once the call it has in flight has returned, also when
\* start_conversation was called again in between: when such a thread is back
\* at the test of line 147 it goes to the end of the loop, not to another
\* pass.
C34_StoppedThreadExits ==
    [][ \A t \in Threads :
          (Abandoned(t) /\ pc[t] = "check" /\ pc'[t] # "check")
              => pc'[t] = "done" ]_vars

\* C34 without the restart: a thread at line 147 after stop_conversation set
\* the flag, and before any start_conversation sets it again, leaves
StoppedThreadExitsBeforeRestart ==
    [][ \A t \in Threads :
          (~is_running /\ pc[t] = "check" /\ pc'[t] # "check")
              => pc'[t] = "done" ]_vars

\* ------------------------------------------------------------------- C35
\* the engine is stopped, no caller is inside start_conversation or
\* stop_conversation, and the last call of every caller is a
\* stop_conversation that returned normally, one of them after it had
\* stopped the engine: no start_conversation has succeeded since
StoppedAndQuiet ==
    /\ ~is_running
    /\ \A c \in Callers : cpc[c] = "idle"
    /\ \A c \in 1..env.callers : ret[c] \in {"stopped", "stop_noop"}
    /\ \E c \in 1..env.callers : ret[c] = "stopped"

\* C35: after stop_conversation has returned normally, and until the next
\* start_conversation, the input stream is stopped and closed and the
\* callback appends no frame: no stream is active.
C35_NoFrameAfterStop ==
    StoppedAndQuiet => \A s \in Streams : streams[s] # "active"

\* C35 for calls made one after the other
NoFrameAfterStopOneCaller ==
    env.callers = 1 => C35_NoFrameAfterStop

\* ------------------------------------------------------------------- C36
\* C36: in every state another thread can observe, is_active() True implies
\* that the input stream is open and that the processing thread is alive.
C36_ActiveImpliesStreamAndThread ==
    is_active =>
        /\ audio_stream # 0 /\ StreamOpen(audio_stream)
        /\ processing_thread # 0 /\ ThreadInLoop(processing_thread)

\* C36 between the calls: when no caller is inside start_conversation or
\* stop_conversation, and one caller makes the calls
ActiveImpliesStreamAndThreadBetweenCalls ==
    (env.callers = 1 /\ \A c \in Callers : cpc[c] = "idle")
        => C36_ActiveImpliesStreamAndThread

\* ------------------------------------------------------------------- C37
\* C37: a session does not get the frames of the session before it: when
\* start_conversation opens its stream, audio_queue holds no frame (any frame
\* in it was captured before the stop_conversation that ended the earlier
\* session, and the thread about to be spawned will classify it).
C37_NewSessionStartsEmpty ==
    [][ \A c \in Callers :
          (cpc[c] = "s_open" /\ cpc'[c] = "s_spawn") => audio_queue = <<>> ]_vars

\* the other half of C37: every thread enters its loop idle, with an empty
\* buffer
NewSessionStartsIdle ==
    \A t \in Threads : pc[t] = "unborn" => locals[t] = FreshLocals

\* ------------------------------------------------------------------- C38
\* C38: an utterance that is still being accumulated when stop_conversation
\* clears is_running is dropped: a thread that is speaking while the flag is
\* cleared hands nothing to _process_speech any more.
C38_PartialUtteranceDropped ==
    [][ \A t \in Threads :
          (~is_running /\ locals[t].is_speaking /\ pc[t] \in {"check", "get"})
              => HandedBy(t)' = HandedBy(t) ]_vars

\* C38, what holds: stop_conversation itself hands nothing over, queues no
\* result and leaves the snapshot alone
StopDoesNotFlush ==
    [][ cpc' # cpc =>
          UNCHANGED <<handed, answers, results_queue, resultsLog,
                      latest_transcript, latest_response, latest_audio_path>> ]_vars

\* ------------------------------------------------------------------- C39
\* thread t takes frame f in this step
Takes(t, f) == seen[f].by = 0 /\ seen'[f].by = t

\* the frame that starts a speech is in the buffer after the pass
StartingFrameKept(t, f) ==
    (seen'[f].prob > vad_threshold /\ ~locals[t].is_speaking)
        => f \in Buffered(t)'

\* the frame that meets the finalization test hands the buffer, that frame
\* included, to _process_speech, once
CompletedUtteranceHanded(t, f) ==
    ( /\ seen'[f].prob <= vad_threshold
      /\ locals[t].is_speaking
      /\ locals[t].silence_duration + ChunkMs >= min_silence_duration_ms
      /\ locals[t].speech_duration >= min_speech_duration_ms )
        => handed' = Append(handed,
               [by |-> t, frames |-> Append(locals[t].speech_chunks, f)])

\* C39: whether or not on_status raises, the frame that starts a speech is
\* part of the utterance, and the utterance whose finalization condition is
\* met is handed to processing, once, with its frames.
C39_StatusFailureLosesNothing ==
    [][ \A t \in Threads : \A f \in FrameIds :
          Takes(t, f) => StartingFrameKept(t, f) /\ CompletedUtteranceHanded(t, f) ]_vars

\* C39 when on_status is not registered
NothingLostWithoutStatusCallback ==
    [][ \A t \in Threads : \A f \in FrameIds :
          (~on_status /\ Takes(t, f))
              => StartingFrameKept(t, f) /\ CompletedUtteranceHanded(t, f) ]_vars

\* C39, the start of speech alone
C39_StartingFrameIsKept ==
    [][ \A t \in Threads : \A f \in FrameIds :
          Takes(t, f) => StartingFrameKept(t, f) ]_vars

\* C39, the end of speech alone
C39_CompletedUtteranceIsHanded ==
    [][ \A t \in Threads : \A f \in FrameIds :
          Takes(t, f) => CompletedUtteranceHanded(t, f) ]_vars

====
